---- MODULE Spec2Model ----
(***************************************************************************)
(* Batch pipeline execution engine of Clarity-Engine-5.                    *)
(*                                                                         *)
(* The model follows FinexioModule.execute                                 *)
(* (src/server/services/modules/finexioModule.ts) await by await: every    *)
(* action is the code that runs between two suspension points.  The        *)
(* record store (server/storage), the matcher (finexioMatcherV3), the      *)
(* pipeline orchestrator and the batch watchdog are not part of the        *)
(* source files at hand; they are modelled from their interfaces and from  *)
(* sections 4.1, 4.4 and 6 of the specification.                           *)
(***************************************************************************)
EXTENDS Integers, Sequences, FiniteSets, TLC

(***************************************************************************)
(* Bounds of the model.  The source fixes CHUNK_SIZE = 50                  *)
(* (finexioModule.ts:47) and CONCURRENT_LIMIT = 20 (finexioModule.ts:62);  *)
(* the model keeps their roles and scales their values so that several     *)
(* chunks, several sub-batches per chunk and several operations per        *)
(* sub-batch all occur within MaxRecords records.                          *)
(***************************************************************************)
MaxRecords == 4

CHUNK_SIZE == 3

CONCURRENT_LIMIT == 2

MaxTime == 2

\* Largest batch run while the clock and the watchdog run too; it is kept
\* below CHUNK_SIZE, so that such a batch is a single chunk.
MaxWatchedRecords == 2

\* Idle time (in clock ticks) after which the watchdog declares a stall.
STALE_THRESHOLD == 1

VARIABLES
    now,            \* wall clock, in ticks
    batch,          \* record store: upload batches, id -> fields
    rows,           \* record store: payee classifications of batch 1, id -> fields
    rerun,          \* the batch was already run through the stage before
    opc,            \* orchestrator: position in run()
    stageIdx,       \* orchestrator: index into the run order
    exec,           \* stage name -> state of its execute call
    pc,             \* FinexioModule.execute: the await it is suspended at
    classifications,\* execute: the fetched records (sequence of ids)
    matchedCount,   \* execute: let matchedCount
    processedCount, \* execute: let processedCount
    totalCount,     \* execute: const totalCount
    chunkIndex,     \* execute: loop variable of line 56 (0-based)
    subStart,       \* execute: loop variable i of line 63 (0-based)
    chunkResults,   \* execute: const chunkResults (sequence of outcomes)
    opPc,           \* per record: position of its batchPromises callback
    opResult,       \* per record: value its callback resolved with
    error,          \* execute: the exception caught at line 133
    thrown,         \* execute: the exception that left execute
    mresp,          \* per record: how its matcher call ended, and const result
    wresp,          \* history: how the record's store update ended
    calls,          \* history: matcher calls per record
    writes,         \* history: store updates issued per record
    storeFaults,    \* history: the store calls of execute that failed
    chunkFaults,    \* history: the chunks whose handler (line 118) ran
    progressLog,    \* history: progress values persisted by this run
    scanLog         \* watchdog: parity of its scan count, and whether the store
                    \* answered the last scan

vars == <<now, batch, rows, rerun, opc, stageIdx, exec, pc,
          classifications, matchedCount, processedCount, totalCount,
          chunkIndex, subStart, chunkResults, opPc, opResult, error, thrown,
          mresp, wresp, calls, writes, storeFaults, chunkFaults, progressLog,
          scanLog>>

orchVars == <<opc, stageIdx>>

stageVars == <<pc, classifications, matchedCount, processedCount, totalCount,
               chunkIndex, subStart, chunkResults, error, thrown>>

opVars == <<opPc, opResult, mresp, wresp, calls, writes, rows>>

histVars == <<storeFaults, chunkFaults, progressLog>>

envVars == <<now, rerun, scanLog>>

(***************************************************************************)
(* Values                                                                  *)
(***************************************************************************)
RecordIds == 1..MaxRecords

BatchIds == {1, 2}

\* Candidate ids; 0 stands for "no value".  The matcher's reference data
\* holds CurrentSuppliers; an earlier run may have stored any of SupplierIds.
SupplierIds == {1, 2}

CurrentSuppliers == {1}

Min(a, b) == IF a < b THEN a ELSE b

\* Math.round(num / den * 100) for 0 <= num <= den, den > 0: round half up.
RoundPercent(num, den) == (200 * num + den) \div (2 * den)

CeilDiv(n, c) == (n + c - 1) \div c

NoMessage == [kind |-> "none", matched |-> 0, processed |-> 0, progress |-> 0, err |-> ""]

Message(kind, m, p, g, e) ==
    [kind |-> kind, matched |-> m, processed |-> p, progress |-> g, err |-> e]

(***************************************************************************)
(* Stage descriptors.  FinexioModule's own fields are lines 13-17 of the   *)
(* source; the two neighbouring stages stand for the other modules of the  *)
(* pipeline, of which only the PipelineModule contract is known.           *)
(***************************************************************************)
FinexioDescriptor ==
    [name |-> "finexio", enabled |-> TRUE, order |-> 2,
     statusField |-> "finexioMatchStatus",
     completedField |-> "finexioMatchCompletedAt"]

NeighbourDescriptors ==
    { [name |-> "stage3", enabled |-> TRUE, order |-> 3,
       statusField |-> "stage3Status", completedField |-> "stage3CompletedAt"],
      [name |-> "stage1", enabled |-> TRUE, order |-> 1,
       statusField |-> "stage1Status", completedField |-> "stage1CompletedAt"] }

Descriptors == NeighbourDescriptors \cup {FinexioDescriptor}

StageNames == {d.name : d \in Descriptors}

DescriptorOf(s) == CHOOSE d \in Descriptors : d.name = s

\* The field a stage's own execute writes its status to.
WrittenStatusField(s) ==
    IF s = "finexio" THEN "finexioMatchingStatus" ELSE DescriptorOf(s).statusField

TerminalStatuses == {"completed", "skipped", "error"}

(***************************************************************************)
(* Record store                                                            *)
(***************************************************************************)
EmptyRow(r) ==
    [finexioSupplierId |-> 0, finexioSupplierName |-> 0,
     finexioConfidence |-> 0, finexioMatchReasoning |-> 0]

\* storage.updateUploadBatch / updatePayeeClassification: the named fields
\* are replaced, every other field keeps its value.
Merge(old, upd) ==
    [f \in DOMAIN old |-> IF f \in DOMAIN upd THEN upd[f] ELSE old[f]]

UpdateUploadBatch(b, upd) ==
    [batch EXCEPT ![b] = [Merge(@, upd) EXCEPT !.lastActivity = now]]

(***************************************************************************)
(* Matcher: finexioMatcherV3.match answers with a result or fails.         *)
(***************************************************************************)
NoMatch ==
    [matched |-> FALSE, supplierId |-> 0, confidence |-> 0, method |-> 0, reasoning |-> 0]

PositiveMatch(s) ==
    [matched |-> TRUE, supplierId |-> s, confidence |-> s, method |-> s, reasoning |-> s]

MatcherResponses == {NoMatch} \cup {PositiveMatch(s) : s \in CurrentSuppliers}

\* classification.cleanedName || classification.originalName
NameOf(r) == r

\* The reasoning left out of the stored text.
MethodOnly(method, reasoning) == method

\* `${result.method}: ${result.reasoning}`
Combine(method, reasoning) == 10 * method + reasoning

\* A plausible slip: the update carries only part of the stage's fields.
MatchFieldsPartial(r, result) ==
    [finexioSupplierId |-> result.supplierId,
     finexioSupplierName |-> NameOf(r)]

\* The fields of the update at lines 79-84.
MatchFields(r, result) ==
    [finexioSupplierId |-> result.supplierId,
     finexioSupplierName |-> NameOf(r),
     finexioConfidence |-> result.confidence,
     finexioMatchReasoning |-> Combine(result.method, result.reasoning)]

\* What an earlier run of the stage left in a matched record: the candidate
\* of that time, which for every second record is no longer the current one.
PriorSupplier(r) == IF r % 2 = 0 THEN 2 ELSE 1

PriorRow(r) ==
    [finexioSupplierId |-> PriorSupplier(r),
     finexioSupplierName |-> NameOf(r),
     finexioConfidence |-> PriorSupplier(r),
     finexioMatchReasoning |-> Combine(PriorSupplier(r), PriorSupplier(r))]

InitialRow(r) == IF rerun THEN PriorRow(r) ELSE EmptyRow(r)

(***************************************************************************)
(* FinexioModule.execute: chunking (lines 46-64)                           *)
(***************************************************************************)
Records == DOMAIN rows

\* Array.prototype.slice(from, to) on a sequence, 0-based, end exclusive.
Slice(seq, from, to) == SubSeq(seq, from + 1, Min(to, Len(seq)))

\* The end of the slice off by one: neighbouring chunks share a record.
RECURSIVE BuildChunksOverlap(_, _)
BuildChunksOverlap(cls, i) ==
    IF i < Len(cls)
    THEN <<Slice(cls, i, i + CHUNK_SIZE + 1)>> \o BuildChunksOverlap(cls, i + CHUNK_SIZE)
    ELSE <<>>

\* lines 48-51
RECURSIVE BuildChunks(_, _)
BuildChunks(cls, i) ==
    IF i < Len(cls)
    THEN <<Slice(cls, i, i + CHUNK_SIZE)>> \o BuildChunks(cls, i + CHUNK_SIZE)
    ELSE <<>>

Chunks == BuildChunks(classifications, 0)

ChunkAt(k) == Chunks[k + 1]

SubBatchAt(k, i) == Slice(ChunkAt(k), i, i + CONCURRENT_LIMIT)

Range(seq) == {seq[j] : j \in 1..Len(seq)}

\* classifications.length === 0 skipped by mistake.
NeverEmpty(cls) == FALSE

\* line 33
IsEmpty(cls) == Len(cls) = 0

\* The await of line 96 left out: the loop goes on at once.
NotAwaited(ids) == TRUE

\* Promise.race in place of Promise.all.
AnySettled(ids) == \E r \in ids : opPc[r] = "settled"

\* line 96: Promise.all resolves once every callback has resolved.
AllSettled(ids) == \A r \in ids : opPc[r] = "settled"

\* Counting every outcome instead of the matched ones.
CountAll(results) == Len(results)

\* Counting the outcomes that carry no error flag.
CountWithoutError(results) ==
    Cardinality({j \in 1..Len(results) : ~results[j].error})

\* line 101: chunkResults.filter(r => r.matched).length
CountMatches(results) == Cardinality({j \in 1..Len(results) : results[j].matched})

\* Adding the nominal chunk size instead of the chunk's length.
ProcessedAfterNominal(chunk) == processedCount + CHUNK_SIZE

\* An assignment in place of the addition.
ProcessedAfterAssigned(chunk) == Len(chunk)

\* line 103
ProcessedAfter(chunk) == processedCount + Len(chunk)

\* lines 66-69: the callbacks of one sub-batch start; each calls the matcher.
Launch(ids) ==
    /\ opPc' = [r \in Records |-> IF r \in ids THEN "matching" ELSE opPc[r]]
    /\ calls' = [r \in Records |-> IF r \in ids THEN calls[r] + 1 ELSE calls[r]]

(***************************************************************************)
(* FinexioModule.execute: the per-record callback (lines 66-93)            *)
(***************************************************************************)
\* The catch resolving as a match.
FailedAsMatch == [matched |-> TRUE, error |-> TRUE]

\* line 91
Failed == [matched |-> FALSE, error |-> TRUE]

\* One try/catch around the whole sub-batch: a failure fails its neighbours.
OpCatchWholeBatch(r) ==
    LET ids == Range(SubBatchAt(chunkIndex, subStart)) IN
    /\ opPc' = [q \in Records |-> IF q \in ids THEN "settled" ELSE opPc[q]]
    /\ opResult' = [q \in Records |-> IF q \in ids THEN Failed ELSE opResult[q]]

\* lines 88-92: the callback's own catch.
OpCatch(r) ==
    /\ opPc' = [opPc EXCEPT ![r] = "settled"]
    /\ opResult' = [opResult EXCEPT ![r] = Failed]

\* line 69 settles with a result; lines 77-87.
MatcherReturns(r) ==
    /\ opPc[r] = "matching"
    /\ \E resp \in MatcherResponses :
        /\ mresp' = [mresp EXCEPT ![r] = [kind |-> "answered", result |-> resp]]
        /\ IF resp.matched /\ resp.supplierId # 0
           THEN /\ opPc' = [opPc EXCEPT ![r] = "writing"]
                /\ writes' = [writes EXCEPT ![r] = @ + 1]
                /\ UNCHANGED opResult
           ELSE /\ opPc' = [opPc EXCEPT ![r] = "settled"]
                /\ opResult' = [opResult EXCEPT ![r] = [matched |-> FALSE, error |-> FALSE]]
                /\ UNCHANGED writes
    /\ UNCHANGED <<batch, rows, wresp, calls, exec>>
    /\ UNCHANGED <<orchVars, stageVars, histVars, envVars>>

\* line 69 rejects.
MatcherFails(r) ==
    /\ opPc[r] = "matching"
    /\ mresp' = [mresp EXCEPT ![r] = [kind |-> "failed", result |-> NoMatch]]
    /\ OpCatch(r)
    /\ UNCHANGED <<batch, rows, wresp, calls, writes, exec>>
    /\ UNCHANGED <<orchVars, stageVars, histVars, envVars>>

\* line 79 settles.
UpdateSettles(r) ==
    /\ opPc[r] = "writing"
    /\ \E ok \in BOOLEAN :
        IF ok
        THEN /\ rows' = [rows EXCEPT ![r] = Merge(@, MatchFields(r, mresp[r].result))]
             /\ wresp' = [wresp EXCEPT ![r] = "ok"]
             /\ opPc' = [opPc EXCEPT ![r] = "settled"]
             /\ opResult' = [opResult EXCEPT ![r] = [matched |-> TRUE, error |-> FALSE]]
        ELSE /\ wresp' = [wresp EXCEPT ![r] = "failed"]
             /\ OpCatch(r)
             /\ UNCHANGED rows
    /\ UNCHANGED <<batch, mresp, calls, writes, exec>>
    /\ UNCHANGED <<orchVars, stageVars, histVars, envVars>>

(***************************************************************************)
(* FinexioModule.execute: the stage flow (lines 19-144)                    *)
(***************************************************************************)
Returned == exec' = [exec EXCEPT !["finexio"] = "returned"]

\* A store call of execute rejects outside the chunk loop: line 133.
Caught(site) ==
    /\ error' = site
    /\ pc' = "L136"
    /\ storeFaults' = storeFaults \cup {site}

\* The loop bound off by one: the last chunk is never run.
NextChunkSkipsLast(chunks, k) ==
    /\ chunkIndex' = k
    /\ IF k < Len(chunks) - 1
       THEN /\ subStart' = 0
            /\ chunkResults' = <<>>
            /\ Launch(Range(Slice(chunks[k + 1], 0, CONCURRENT_LIMIT)))
            /\ pc' = "L96"
       ELSE /\ pc' = "L125"
            /\ UNCHANGED <<subStart, chunkResults, opPc, calls>>

\* line 56 with chunkIndex = k: the next chunk starts, or the loop ends and
\* the final update (line 125) is issued.
NextChunk(chunks, k) ==
    /\ chunkIndex' = k
    /\ IF k < Len(chunks)
       THEN /\ subStart' = 0
            /\ chunkResults' = <<>>
            /\ Launch(Range(Slice(chunks[k + 1], 0, CONCURRENT_LIMIT)))
            /\ pc' = "L96"
       ELSE /\ pc' = "L125"
            /\ UNCHANGED <<subStart, chunkResults, opPc, calls>>

\* lines 24-28 settle.
InitialUpdate ==
    [finexioMatchingStatus |-> "processing",
     currentStep |-> "Matching with Finexio suppliers",
     progressMessage |-> Message("searching", 0, 0, 0, "")]

InitialWriteSettles ==
    /\ pc = "L24"
    /\ \E ok \in BOOLEAN :
        IF ok
        THEN /\ batch' = UpdateUploadBatch(1, InitialUpdate)
             /\ pc' = "L31"
             /\ UNCHANGED <<error, storeFaults>>
        ELSE /\ Caught("L24")
             /\ UNCHANGED batch
    /\ UNCHANGED <<classifications, matchedCount, processedCount, totalCount,
                   chunkIndex, subStart, chunkResults, thrown, exec>>
    /\ UNCHANGED <<orchVars, opVars, chunkFaults, progressLog, envVars>>

\* line 31 settles; lines 33-66.
FetchSettles ==
    /\ pc = "L31"
    /\ \E ok \in BOOLEAN :
        IF ok
        THEN LET cls == [j \in 1..Cardinality(Records) |-> j] IN
             /\ classifications' = cls
             /\ IF IsEmpty(cls)
                THEN /\ pc' = "L35"
                     /\ UNCHANGED <<matchedCount, processedCount, totalCount,
                                    chunkIndex, subStart, chunkResults, opPc, calls>>
                ELSE /\ matchedCount' = 0
                     /\ processedCount' = 0
                     /\ totalCount' = Len(cls)
                     /\ NextChunk(BuildChunks(cls, 0), 0)
             /\ UNCHANGED <<error, storeFaults>>
        ELSE /\ Caught("L31")
             /\ UNCHANGED <<classifications, matchedCount, processedCount, totalCount,
                            chunkIndex, subStart, chunkResults, opPc, calls>>
    /\ UNCHANGED <<batch, rows, opResult, mresp, wresp, writes, thrown, exec>>
    /\ UNCHANGED <<orchVars, chunkFaults, progressLog, envVars>>

\* lines 35-39 settle.
SkipUpdate ==
    [finexioMatchingStatus |-> "skipped", finexioMatchingCompletedAt |-> now]

SkipWriteSettles ==
    /\ pc = "L35"
    /\ \E ok \in BOOLEAN :
        IF ok
        THEN /\ batch' = UpdateUploadBatch(1, SkipUpdate)
             /\ pc' = "returned"
             /\ Returned
             /\ UNCHANGED <<error, storeFaults>>
        ELSE /\ Caught("L35")
             /\ UNCHANGED <<batch, exec>>
    /\ UNCHANGED <<classifications, matchedCount, processedCount, totalCount,
                   chunkIndex, subStart, chunkResults, thrown>>
    /\ UNCHANGED <<orchVars, opVars, chunkFaults, progressLog, envVars>>

\* line 96 resolves; lines 97-107, or the next turn of the loop at line 63.
SubBatchSettles ==
    /\ pc = "L96"
    /\ LET chunk == ChunkAt(chunkIndex)
           ids == SubBatchAt(chunkIndex, subStart)
           results == chunkResults \o [j \in 1..Len(ids) |-> opResult[ids[j]]]
       IN
       /\ AllSettled(Range(ids))
       /\ chunkResults' = results
       /\ IF subStart + CONCURRENT_LIMIT < Len(chunk)
          THEN /\ subStart' = subStart + CONCURRENT_LIMIT
               /\ Launch(Range(Slice(chunk, subStart + CONCURRENT_LIMIT,
                                     subStart + 2 * CONCURRENT_LIMIT)))
               /\ UNCHANGED <<pc, matchedCount, processedCount>>
          ELSE /\ matchedCount' = matchedCount + CountMatches(results)
               /\ processedCount' = ProcessedAfter(chunk)
               /\ pc' = "L107"
               /\ UNCHANGED <<subStart, opPc, calls>>
    /\ UNCHANGED <<batch, rows, opResult, mresp, wresp, writes, exec>>
    /\ UNCHANGED <<classifications, totalCount, chunkIndex, error, thrown>>
    /\ UNCHANGED <<orchVars, histVars, envVars>>

\* line 106
Progress == RoundPercent(processedCount, totalCount)

\* lines 107-110 settle; lines 112-117, or the handler of line 118.
ProgressUpdate ==
    [finexioMatchingProgress |-> Progress,
     progressMessage |-> Message("progress", matchedCount, processedCount, Progress, "")]

\* The chunk's handler throwing the failure on: it reaches line 133.
ChunkCatchRethrows ==
    /\ chunkFaults' = chunkFaults \cup {chunkIndex}
    /\ Caught("L107")
    /\ UNCHANGED <<chunkIndex, subStart, chunkResults, opPc, calls>>

\* lines 118-121: the chunk's handler; the loop goes on at line 56.
ChunkCatch ==
    /\ chunkFaults' = chunkFaults \cup {chunkIndex}
    /\ NextChunk(Chunks, chunkIndex + 1)
    /\ UNCHANGED <<error, storeFaults>>

ProgressWriteSettles ==
    /\ pc = "L107"
    /\ \E ok \in BOOLEAN :
        IF ok
        THEN /\ batch' = UpdateUploadBatch(1, ProgressUpdate)
             /\ progressLog' = Append(progressLog, Progress)
             /\ IF chunkIndex < Len(Chunks) - 1
                THEN /\ pc' = "L116"
                     /\ UNCHANGED <<chunkIndex, subStart, chunkResults, opPc, calls>>
                ELSE NextChunk(Chunks, chunkIndex + 1)
             /\ UNCHANGED <<chunkFaults, error, storeFaults>>
        ELSE /\ ChunkCatch
             /\ UNCHANGED <<batch, progressLog>>
    /\ UNCHANGED <<rows, opResult, mresp, wresp, writes, exec>>
    /\ UNCHANGED <<classifications, matchedCount, processedCount, totalCount, thrown>>
    /\ UNCHANGED <<orchVars, envVars>>

\* line 116 settles.
DelayElapses ==
    /\ pc = "L116"
    /\ NextChunk(Chunks, chunkIndex + 1)
    /\ UNCHANGED <<batch, rows, opResult, mresp, wresp, writes, exec>>
    /\ UNCHANGED <<classifications, matchedCount, processedCount, totalCount,
                   error, thrown>>
    /\ UNCHANGED <<orchVars, histVars, envVars>>

\* The final update without the status field.
FinalUpdateNoStatus ==
    [finexioMatchingCompletedAt |-> now,
     currentStep |-> "Finexio matching complete",
     progressMessage |-> Message("final", matchedCount, processedCount, 0, "")]

\* The final update keeping an error status set by someone else.
FinalUpdateUnlessFailed ==
    [finexioMatchingStatus |-> IF batch[1].status = "failed" THEN "error" ELSE "completed",
     finexioMatchingCompletedAt |-> now,
     currentStep |-> "Finexio matching complete",
     progressMessage |-> Message("final", matchedCount, processedCount, 0, "")]

\* lines 125-130
FinalUpdate ==
    [finexioMatchingStatus |-> "completed",
     finexioMatchingCompletedAt |-> now,
     currentStep |-> "Finexio matching complete",
     progressMessage |-> Message("final", matchedCount, processedCount, 0, "")]

FinalWriteSettles ==
    /\ pc = "L125"
    /\ \E ok \in BOOLEAN :
        IF ok
        THEN /\ batch' = UpdateUploadBatch(1, FinalUpdate)
             /\ pc' = "returned"
             /\ Returned
             /\ UNCHANGED <<error, storeFaults>>
        ELSE /\ Caught("L125")
             /\ UNCHANGED <<batch, exec>>
    /\ UNCHANGED <<classifications, matchedCount, processedCount, totalCount,
                   chunkIndex, subStart, chunkResults, thrown>>
    /\ UNCHANGED <<orchVars, opVars, chunkFaults, progressLog, envVars>>

\* The handler ends without line 142: the failure is swallowed.
Swallow(e) ==
    /\ thrown' = thrown
    /\ pc' = "returned"
    /\ exec' = [exec EXCEPT !["finexio"] = "returned"]

\* line 142, or line 136 rejecting: e leaves execute.
Rethrow(e) ==
    /\ thrown' = e
    /\ pc' = "thrown"
    /\ exec' = [exec EXCEPT !["finexio"] = "thrown"]

\* lines 136-140
ErrorUpdate ==
    [finexioMatchingStatus |-> "error",
     currentStep |-> "Finexio matching failed",
     progressMessage |-> Message("error", 0, 0, 0, error)]

CatchWriteSettles ==
    /\ pc = "L136"
    /\ \E ok \in BOOLEAN :
        IF ok
        THEN /\ batch' = UpdateUploadBatch(1, ErrorUpdate)
             /\ Rethrow(error)
             /\ UNCHANGED storeFaults
        ELSE /\ storeFaults' = storeFaults \cup {"L136"}
             /\ Rethrow("L136")
             /\ UNCHANGED batch
    /\ UNCHANGED <<classifications, matchedCount, processedCount, totalCount,
                   chunkIndex, subStart, chunkResults, error>>
    /\ UNCHANGED <<orchVars, opVars, chunkFaults, progressLog, envVars>>

(***************************************************************************)
(* Pipeline orchestrator (specification, section 4.1)                      *)
(***************************************************************************)
RECURSIVE SortByOrder(_)
SortByOrder(ds) ==
    IF ds = {} THEN <<>>
    ELSE LET d == CHOOSE x \in ds : \A y \in ds : x.order <= y.order
         IN <<d.name>> \o SortByOrder(ds \ {d})

RunOrder == SortByOrder({d \in Descriptors : d.enabled})

CurrentStage == RunOrder[stageIdx]

Field(f, v) == [g \in {f} |-> v]

OrchRun ==
    /\ opc = "idle"
    /\ batch' = UpdateUploadBatch(1, [status |-> "processing"])
    /\ stageIdx' = 1
    /\ opc' = "next"
    /\ UNCHANGED <<exec, stageVars, opVars, histVars, envVars>>

OrchInvoke ==
    /\ opc = "next"
    /\ stageIdx <= Len(RunOrder)
    /\ batch' = UpdateUploadBatch(1, Field(DescriptorOf(CurrentStage).statusField, "processing"))
    /\ exec' = [exec EXCEPT ![CurrentStage] = "running"]
    /\ pc' = IF CurrentStage = "finexio" THEN "L24" ELSE pc
    /\ opc' = "await"
    /\ UNCHANGED <<stageIdx, classifications, matchedCount, processedCount, totalCount,
                   chunkIndex, subStart, chunkResults, error, thrown>>
    /\ UNCHANGED <<opVars, histVars, envVars>>

OrchStageReturned ==
    /\ opc = "await"
    /\ exec[CurrentStage] = "returned"
    /\ stageIdx' = stageIdx + 1
    /\ opc' = "next"
    /\ UNCHANGED <<batch, exec, stageVars, opVars, histVars, envVars>>

OrchStageThrew ==
    /\ opc = "await"
    /\ exec[CurrentStage] = "thrown"
    /\ batch' = UpdateUploadBatch(1,
          Field(DescriptorOf(CurrentStage).statusField, "error") @@ [status |-> "failed"])
    /\ opc' = "done"
    /\ UNCHANGED <<stageIdx, exec, stageVars, opVars, histVars, envVars>>

OrchFinish ==
    /\ opc = "next"
    /\ stageIdx > Len(RunOrder)
    /\ batch' = UpdateUploadBatch(1, [status |-> "completed"])
    /\ opc' = "done"
    /\ UNCHANGED <<stageIdx, exec, stageVars, opVars, histVars, envVars>>

\* The execute of a neighbouring stage: it ends completed or skipped, or it
\* fails and throws.
NeighbourExecute(s) ==
    /\ s # "finexio"
    /\ exec[s] = "running"
    /\ \E outcome \in TerminalStatuses :
        /\ batch' = UpdateUploadBatch(1, Field(WrittenStatusField(s), outcome))
        /\ exec' = [exec EXCEPT ![s] = IF outcome = "error" THEN "thrown" ELSE "returned"]
    /\ UNCHANGED <<orchVars, stageVars, opVars, histVars, envVars>>

(***************************************************************************)
(* Stall watchdog (specification, section 4.4)                             *)
(***************************************************************************)
StageStatusFields == {WrittenStatusField(s) : s \in StageNames}

NonTerminal(b) == \E f \in StageStatusFields : b[f] = "processing"

Elapsed(b) == now - b.lastActivity

\* A watchdog that ignores the idle time.
AlwaysStale(b) == NonTerminal(b)

IsStale(b) == NonTerminal(b) /\ Elapsed(b) > STALE_THRESHOLD

\* The batch's running stage and the batch itself go to error, with the
\* idle time in the message.
MarkStalled(b) ==
    [f \in DOMAIN b |->
        IF f \in StageStatusFields /\ b[f] = "processing" THEN "error"
        ELSE IF f = "status" THEN "failed"
        ELSE IF f = "progressMessage" THEN Message("stalled", 0, 0, 0, "")
        ELSE IF f = "stalledAfter" THEN Elapsed(b)
        ELSE IF f = "lastActivity" THEN now
        ELSE b[f]]

Tick ==
    /\ now < MaxTime
    /\ now' = now + 1
    /\ UNCHANGED <<batch, rerun, scanLog, exec>>
    /\ UNCHANGED <<orchVars, stageVars, opVars, histVars>>

\* One scan cycle.  When the store does not answer, the cycle is skipped.
WatchdogScan ==
    /\ \E up \in BOOLEAN :
        /\ scanLog' = [n |-> 1 - scanLog.n, up |-> up]
        /\ batch' = IF up
                    THEN [b \in BatchIds |->
                            IF IsStale(batch[b]) THEN MarkStalled(batch[b]) ELSE batch[b]]
                    ELSE batch
    /\ UNCHANGED <<now, rerun, exec>>
    /\ UNCHANGED <<orchVars, stageVars, opVars, histVars>>

(***************************************************************************)
(* Initial states                                                          *)
(***************************************************************************)
\* Batch 1 is about to be run: for the first time, or again after a run
\* that completed.
InitialBatch(again) ==
    [status |-> "pending",
     stage1Status |-> "pending",
     finexioMatchStatus |-> "pending",
     finexioMatchingStatus |-> IF again THEN "completed" ELSE "pending",
     finexioMatchingProgress |-> IF again THEN 100 ELSE 0,
     finexioMatchingCompletedAt |-> IF again THEN 0 ELSE -1,
     stage3Status |-> "pending",
     currentStep |-> "",
     progressMessage |-> NoMessage,
     stalledAfter |-> 0,
     lastActivity |-> 0]

\* Batch 2 was left in the middle of the stage by a worker that is gone.
OrphanBatch ==
    [InitialBatch(FALSE) EXCEPT !.status = "processing",
                                !.finexioMatchStatus = "processing",
                                !.finexioMatchingStatus = "processing"]

Init ==
    /\ now = 0
    /\ scanLog = [n |-> 0, up |-> FALSE]
    /\ rerun \in BOOLEAN
    /\ \E n \in 0..MaxRecords :
        rows = [r \in 1..n |-> InitialRow(r)]
    /\ batch = [b \in BatchIds |-> IF b = 1 THEN InitialBatch(rerun) ELSE OrphanBatch]
    /\ opc = "idle"
    /\ stageIdx = 0
    /\ exec = [s \in StageNames |-> "idle"]
    /\ pc = "idle"
    /\ classifications = <<>>
    /\ matchedCount = 0
    /\ processedCount = 0
    /\ totalCount = 0
    /\ chunkIndex = 0
    /\ subStart = 0
    /\ chunkResults = <<>>
    /\ opPc = [r \in Records |-> "idle"]
    /\ opResult = [r \in Records |-> [matched |-> FALSE, error |-> FALSE]]
    /\ error = ""
    /\ thrown = ""
    /\ mresp = [r \in Records |-> [kind |-> "none", result |-> NoMatch]]
    /\ wresp = [r \in Records |-> "none"]
    /\ calls = [r \in Records |-> 0]
    /\ writes = [r \in Records |-> 0]
    /\ storeFaults = {}
    /\ chunkFaults = {}
    /\ progressLog = <<>>

(***************************************************************************)
(* Specifications                                                          *)
(***************************************************************************)
\* execute over a single chunk: the pause between chunks (line 116) is
\* never reached.
ExecuteOneChunk ==
    \/ InitialWriteSettles
    \/ FetchSettles
    \/ SkipWriteSettles
    \/ SubBatchSettles
    \/ ProgressWriteSettles
    \/ FinalWriteSettles
    \/ CatchWriteSettles

Execute == ExecuteOneChunk \/ DelayElapses

Operation ==
    \E r \in Records : MatcherReturns(r) \/ MatcherFails(r) \/ UpdateSettles(r)

Orchestrator ==
    \/ OrchRun
    \/ OrchInvoke
    \/ OrchStageReturned
    \/ OrchStageThrew
    \/ OrchFinish
    \/ \E s \in StageNames : NeighbourExecute(s)

Next == Execute \/ Operation \/ Orchestrator

\* One batch driven through the pipeline.
Spec == Init /\ [][Next]_vars

NextWatched == ExecuteOneChunk \/ Operation \/ Orchestrator \/ Tick \/ WatchdogScan

\* The same with the clock running and the watchdog scanning, for batches
\* of a single chunk.
InitWatched == Init /\ Cardinality(Records) <= Min(MaxWatchedRecords, CHUNK_SIZE)

SpecWatchdog == InitWatched /\ [][NextWatched]_vars

\* The same where every call that execute or one of its operations awaits
\* settles in the end: the matcher call and the update of each record, and
\* the store calls and the pause of the stage flow.
SpecFair ==
    /\ Spec
    /\ WF_vars(Execute)
    /\ \A r \in RecordIds :
        WF_vars(r \in Records /\ (MatcherReturns(r) \/ MatcherFails(r) \/ UpdateSettles(r)))

(***************************************************************************)
(* Vocabulary of the properties                                            *)
(***************************************************************************)
N == Cardinality(Records)

\* The matcher answered record r with a positive match.
Positive(r) == mresp[r].kind = "answered" /\ mresp[r].result.matched

\* The operation of record r failed: its matcher call or its store update.
RecordFailed(r) == mresp[r].kind = "failed" \/ wresp[r] = "failed"

RecordFaults == {r \in Records : RecordFailed(r)}

FaultFree == storeFaults = {} /\ chunkFaults = {} /\ RecordFaults = {}

\* The whole field set of the stage, as one matcher result determines it.
WholeRow(r, result) ==
    [finexioSupplierId |-> result.supplierId,
     finexioSupplierName |-> r,
     finexioConfidence |-> result.confidence,
     finexioMatchReasoning |-> 10 * result.method + result.reasoning]

\* Position of record r: its chunk, and its sub-batch within the chunk.
ChunkOf(r) == (r - 1) \div CHUNK_SIZE

SubBatchOf(r) == ((r - 1) % CHUNK_SIZE) \div CONCURRENT_LIMIT

InFlight == {r \in Records : opPc[r] \in {"matching", "writing"}}

\* The chunk loop (line 56) has been left.
AfterLoop ==
    \/ pc \in {"L125", "returned"}
    \/ pc \in {"L136", "thrown"} /\ "L125" \in storeFaults

\* The chunk loop has been entered.
InLoopOrAfter == pc \in {"L96", "L107", "L116"} \/ (AfterLoop /\ N >= 1)

(***************************************************************************)
(* Properties                                                              *)
(***************************************************************************)

\* C1 (isolation): every settled record carries its own outcome, whatever
\* happened to the other records: it resolved as matched exactly when the
\* matcher matched it and its update was stored, in which case its match
\* fields are in the store; it resolved as failed exactly when its own call
\* failed.  The chunk's matches are counted from these outcomes; whatever
\* failed, the loop ends with every record settled and counted, and no
\* record failure takes the stage to its failure handler.
C1_Isolation ==
    /\ \A r \in Records :
        opPc[r] = "settled" =>
          /\ opResult[r].matched = (Positive(r) /\ wresp[r] = "ok")
          /\ opResult[r].error = RecordFailed(r)
          /\ (Positive(r) /\ wresp[r] = "ok") => rows[r] = WholeRow(r, mresp[r].result)
    /\ InLoopOrAfter =>
          matchedCount =
            Cardinality({r \in 1..processedCount : Positive(r) /\ wresp[r] = "ok"})
    /\ (AfterLoop /\ N >= 1) =>
          /\ processedCount = N
          /\ \A r \in Records : opPc[r] = "settled"
    /\ pc \in {"L136", "thrown"} => storeFaults # {}

\* C1 witness: the first chunk has been counted; exactly one of its records
\* had its matcher call fail and every other record of it was matched.
C1_Witness ==
    /\ pc = "L107"
    /\ chunkIndex = 0
    /\ Len(ChunkAt(0)) = CHUNK_SIZE
    /\ \E r \in Range(ChunkAt(0)) :
        /\ mresp[r].kind = "failed"
        /\ \A q \in Range(ChunkAt(0)) \ {r} : opResult[q].matched
    /\ matchedCount = CHUNK_SIZE - 1

\* C2 (bounded concurrency): at most CONCURRENT_LIMIT operations are in
\* flight, they all belong to the sub-batch being awaited, and within a
\* chunk an operation of a later sub-batch has started only when every
\* operation of the earlier sub-batches has settled.
C2_BoundedConcurrency ==
    /\ Cardinality(InFlight) <= CONCURRENT_LIMIT
    /\ \A r \in InFlight :
        /\ pc = "L96"
        /\ ChunkOf(r) = chunkIndex
        /\ SubBatchOf(r) * CONCURRENT_LIMIT = subStart
    /\ \A q, r \in Records :
        (ChunkOf(q) = ChunkOf(r) /\ SubBatchOf(q) < SubBatchOf(r) /\ opPc[r] # "idle")
            => opPc[q] = "settled"

\* C2 witness: an operation of a second sub-batch is in flight, after a
\* first sub-batch of CONCURRENT_LIMIT operations.
C2_Witness ==
    \E r \in InFlight :
        /\ SubBatchOf(r) = 1
        /\ Cardinality({q \in Records : ChunkOf(q) = ChunkOf(r) /\ SubBatchOf(q) = 0})
             = CONCURRENT_LIMIT

\* C3 (chunk count and progress): the records are cut into ceil(N/C) chunks
\* and the loop runs once per chunk; in a run without faults the k-th
\* progress value persisted is round(min(k*C, N) / N * 100), one per chunk,
\* and the store holds the latest of them.
C3_ChunksAndProgress ==
    /\ InLoopOrAfter =>
        /\ Len(Chunks) = CeilDiv(N, CHUNK_SIZE)
        /\ chunkIndex <= CeilDiv(N, CHUNK_SIZE)
        /\ (AfterLoop <=> chunkIndex = CeilDiv(N, CHUNK_SIZE))
    /\ (InLoopOrAfter /\ FaultFree) =>
        /\ \A k \in 1..Len(progressLog) :
            progressLog[k] = RoundPercent(Min(k * CHUNK_SIZE, N), N)
        /\ Len(progressLog) = (IF pc \in {"L96", "L107"} THEN chunkIndex
                               ELSE IF pc = "L116" THEN chunkIndex + 1
                               ELSE CeilDiv(N, CHUNK_SIZE))
        /\ Len(progressLog) >= 1 =>
            batch[1].finexioMatchingProgress = progressLog[Len(progressLog)]

\* C3 witness: a run without faults over the largest batch has left the
\* loop after more than one chunk, the last one shorter than the others.
C3_Witness ==
    /\ AfterLoop
    /\ FaultFree
    /\ N = MaxRecords
    /\ Len(progressLog) = CeilDiv(N, CHUNK_SIZE)
    /\ Len(progressLog) >= 2
    /\ N % CHUNK_SIZE # 0

\* C4 (monotonic progress): from the entry of execute on, no step lowers the
\* persisted stage progress of the batch, in a first run and in a re-run.
C4_ProgressNeverDrops ==
    [][pc # "idle" =>
         batch'[1].finexioMatchingProgress >= batch[1].finexioMatchingProgress]_vars

\* C5 (stage order): for adjacent stages A before B of the run order, a
\* status field of B (the one its descriptor names or the one its execute
\* writes) turns to "processing" only when the status A's execute writes is
\* terminal and A's execute call has ended.
C5_StageOrder ==
    [][\A j \in 1..(Len(RunOrder) - 1) :
         LET A == RunOrder[j]
             B == RunOrder[j + 1]
         IN \A f \in {DescriptorOf(B).statusField, WrittenStatusField(B)} :
              (batch[1][f] # "processing" /\ batch'[1][f] = "processing")
                => /\ batch[1][WrittenStatusField(A)] \in TerminalStatuses
                   /\ exec[A] \in {"returned", "thrown"}]_vars

\* C5 witness: the stage after the matching stage is processing, the
\* matching stage having run over records and returned.
C5_Witness ==
    /\ batch[1].stage3Status = "processing"
    /\ batch[1].finexioMatchingStatus = "completed"
    /\ exec["finexio"] = "returned"
    /\ exec["stage3"] = "running"
    /\ N >= 1

\* A failure reached the stage's handler (line 133), or the execute of a
\* neighbouring stage threw.
StageFailed(s) == IF s = "finexio" THEN error # "" ELSE exec[s] = "thrown"

\* C6 (a stage failure is fatal): once a stage has failed, its execute ends
\* by throwing, no later stage is ever invoked, and when the orchestrator
\* is done the stage is recorded as "error" and the batch as failed.
C6_StageFailureIsFatal ==
    \A j \in 1..Len(RunOrder) :
        LET s == RunOrder[j] IN
        StageFailed(s) =>
            /\ exec[s] \in {"running", "thrown"}
            /\ \A k \in (j + 1)..Len(RunOrder) : exec[RunOrder[k]] = "idle"
            /\ opc # "next"
            /\ opc = "done" =>
                 /\ exec[s] = "thrown"
                 /\ batch[1][DescriptorOf(s).statusField] = "error"
                 /\ batch[1].status = "failed"

\* C6 witness: the matching stage threw after an earlier stage completed,
\* and the orchestrator is done.
C6_Witness ==
    /\ opc = "done"
    /\ exec["stage1"] = "returned"
    /\ exec["finexio"] = "thrown"
    /\ thrown # ""
    /\ batch[1].status = "failed"

ScanStep == scanLog'.n # scanLog.n

\* The watchdog's stall mark on a batch.
Stalled(b) == b.status = "failed" /\ ~NonTerminal(b) /\ b.progressMessage.kind = "stalled"

ScanVerdict ==
    \A b \in BatchIds :
        /\ (NonTerminal(batch[b]) /\ Elapsed(batch[b]) > STALE_THRESHOLD)
             => Stalled(batch'[b])
        /\ Elapsed(batch[b]) < STALE_THRESHOLD => batch'[b] = batch[b]

K == Cardinality({r \in Records : Positive(r)})

C9_EmptyBatchSkipped ==
    N = 0 =>
        /\ storeFaults = {} => pc \notin {"L136", "thrown"}
        /\ pc \notin {"L96", "L107", "L116", "L125"}
        /\ pc = "returned" =>
            /\ batch[1].finexioMatchingStatus = "skipped"
            /\ batch[1].finexioMatchingCompletedAt >= 0
            /\ batch[1].finexioMatchingProgress = InitialBatch(rerun).finexioMatchingProgress
            /\ batch[1].progressMessage = Message("searching", 0, 0, 0, "")
            /\ progressLog = <<>>
            /\ exec["finexio"] = "returned"
            /\ opc = "done" => exec["stage3"] # "idle"

\* C9 witness: the stage was skipped and the orchestrator ran the next
\* stage to its end.
C9_Witness ==
    /\ N = 0
    /\ pc = "returned"
    /\ batch[1].finexioMatchingStatus = "skipped"
    /\ opc = "done"
    /\ exec["stage3"] = "returned"

\* C10 (idempotence): in a re-run, the stage's fields of every record are
\* at all times either those the earlier run left or the whole field set of
\* one matcher result.
C10_RerunWritesWholeRows ==
    rerun =>
        \A r \in Records :
            \/ rows[r] = PriorRow(r)
            \/ \E resp \in MatcherResponses :
                 resp.matched /\ rows[r] = WholeRow(r, resp)

\* C10 witness: a re-run has returned after overwriting one record with the
\* values it already had and another with new values.
C10_Witness ==
    /\ rerun
    /\ pc = "returned"
    /\ \E r \in Records : wresp[r] = "ok" /\ rows[r] = PriorRow(r)
    /\ \E r \in Records : wresp[r] = "ok" /\ rows[r] # PriorRow(r)

\* The stage status of batch 1 turns to "completed" in this step.
CompletedWritten ==
    /\ batch[1].finexioMatchingStatus # "completed"
    /\ batch'[1].finexioMatchingStatus = "completed"

\* C11 (no completion over unprocessed records): whenever the stage status
\* turns to "completed", the fetched records are all the records of the
\* batch, and the operation of each of them has been launched and has
\* settled.
C11_CompletedAfterAllSettled ==
    [][CompletedWritten =>
          /\ Range(classifications) = Records
          /\ \A r \in Records : calls[r] >= 1 /\ opPc[r] = "settled"]_vars

\* C11 witness: the stage is completed over the largest batch, in which an
\* operation failed, and every operation has settled.
C11_Witness ==
    /\ pc = "returned"
    /\ batch[1].finexioMatchingStatus = "completed"
    /\ N = MaxRecords
    /\ RecordFaults # {}
    /\ \A r \in Records : calls[r] >= 1 /\ opPc[r] = "settled"

\* C12 (escaping exceptions): when execute has ended by throwing, the stage
\* status is "error", the persisted message carries the message of the
\* exception that escaped the flow, and that exception is the one thrown.
C12_EscapeSetsErrorAndRethrows ==
    pc = "thrown" =>
        /\ batch[1].finexioMatchingStatus = "error"
        /\ batch[1].progressMessage = Message("error", 0, 0, 0, error)
        /\ thrown = error

\* The records whose matcher call failed.
MatcherFaults == {r \in Records : mresp[r].kind = "failed"}

\* C13 (matcher failures stay at record level): a record whose matcher call
\* failed settles as a non-match, no update is issued for it and its stored
\* fields stay as they were; the matched count never exceeds the number of
\* records counted whose matcher call did not fail; and whatever set of
\* matcher calls failed, unless a store call of the stage flow failed,
\* execute never reaches its failure handler and returns with the stage
\* "completed".
C13_MatcherFailureIsNonMatch ==
    /\ \A r \in MatcherFaults :
        /\ opPc[r] = "settled"
        /\ ~opResult[r].matched
        /\ writes[r] = 0
        /\ rows[r] = InitialRow(r)
    /\ InLoopOrAfter =>
        matchedCount <= Cardinality((1..processedCount) \ MatcherFaults)
    /\ storeFaults = {} =>
        /\ pc \notin {"L136", "thrown"}
        /\ error = ""
        /\ (pc = "returned" /\ N >= 1) =>
            /\ batch[1].finexioMatchingStatus = "completed"
            /\ exec["finexio"] = "returned"

\* C13 witness: the matcher failed for every record of the largest batch,
\* and execute returned with the stage completed and nothing matched.
C13_Witness ==
    /\ pc = "returned"
    /\ N = MaxRecords
    /\ MatcherFaults = Records
    /\ batch[1].finexioMatchingStatus = "completed"
    /\ batch[1].progressMessage = Message("final", 0, N, 0, "")

\* Number of chunks whose progress write (line 107) has settled, stored or
\* rejected.
ProgressAttempts == Len(progressLog) + Cardinality(chunkFaults)

\* C14 (chunks run one after the other, in input order): when an operation
\* of a chunk has been launched, every operation of every earlier chunk has
\* settled and the progress write of every earlier chunk has been
\* attempted; the operations in flight all belong to one chunk, the one the
\* loop is at; and the chunks whose progress write was attempted are the
\* first ones of the input.
C14_ChunksSequential ==
    /\ \A r \in Records :
        opPc[r] # "idle" =>
            /\ \A q \in Records : ChunkOf(q) < ChunkOf(r) => opPc[q] = "settled"
            /\ ProgressAttempts >= ChunkOf(r)
            /\ ChunkOf(r) <= chunkIndex
    /\ \A q, r \in InFlight : ChunkOf(q) = ChunkOf(r) /\ ChunkOf(r) = chunkIndex
    /\ InLoopOrAfter =>
        /\ ProgressAttempts = (IF pc \in {"L96", "L107"} THEN chunkIndex
                               ELSE IF pc = "L116" THEN chunkIndex + 1
                               ELSE Len(Chunks))
        /\ \A k \in chunkFaults : k < ProgressAttempts

\* C14 witness: an operation of the second chunk is in flight while every
\* operation of the first, full chunk has settled and its progress was
\* written.
C14_Witness ==
    /\ \E r \in InFlight : ChunkOf(r) = 1
    /\ \A q \in 1..CHUNK_SIZE : opPc[q] = "settled"
    /\ Len(progressLog) = 1

\* The handler of a chunk (line 118) runs in this step.
ChunkFaultStep == chunkFaults' # chunkFaults

\* C15 (a chunk fault is recoverable): the step in which a chunk's handler
\* runs goes on with the next chunk, launching its first operations, or
\* leaves the loop after the last chunk, and takes nothing to the stage's
\* failure handler; and after that step, once the loop is over every record
\* of every chunk has been launched and has settled, and when execute has
\* returned after a chunk fault the stage is "completed".
C15_ChunkFaultContinues ==
    [][/\ ChunkFaultStep =>
            /\ chunkIndex' = chunkIndex + 1
            /\ error' = error
            /\ IF chunkIndex + 1 < Len(Chunks)
               THEN /\ pc' = "L96"
                    /\ \E r \in Records : ChunkOf(r) = chunkIndex' /\ opPc'[r] = "matching"
               ELSE pc' = "L125"
       /\ (chunkFaults' # {} /\ pc' \in {"L136", "thrown"}) => "L125" \in storeFaults'
       /\ (chunkFaults' # {} /\ pc' \in {"L125", "returned"}) =>
            \A r \in Records : calls'[r] >= 1 /\ opPc'[r] = "settled"
       /\ (chunkFaults' # {} /\ pc' = "returned") =>
            batch'[1].finexioMatchingStatus = "completed"]_vars

\* C15 witness: the handler of the first chunk ran, the second chunk was
\* processed and its progress stored, and execute returned with the stage
\* completed.
C15_Witness ==
    /\ pc = "returned"
    /\ chunkFaults = {0}
    /\ Len(Chunks) >= 2
    /\ Len(progressLog) = Len(Chunks) - 1
    /\ \A r \in Records : opPc[r] = "settled"
    /\ batch[1].finexioMatchingStatus = "completed"

\* The records of the chunks whose handler ran.
FaultedRecords == {r \in Records : ChunkOf(r) \in chunkFaults}

\* The records whose match fields this run stored.
Stored == {r \in Records : Positive(r) /\ wresp[r] = "ok"}

\* C16 as claimed (a faulted chunk is not counted): when execute has
\* returned, the processed count of the final message is the total minus
\* the sizes of the chunks that suffered a chunk-level fault.
C16_FaultedChunkUncounted ==
    (pc = "returned" /\ N >= 1) =>
        /\ processedCount = N - Cardinality(FaultedRecords)
        /\ batch[1].progressMessage.processed = N - Cardinality(FaultedRecords)

\* C16 as amended (a faulted chunk is counted in full): a chunk whose
\* handler ran has been counted before, with its whole size and with its
\* matches; so when the loop is over the processed count is the total, and
\* the final message reports the stored matches out of the total, whether
\* or not chunk-level faults occurred.
C16_FaultedChunkCounted ==
    /\ InLoopOrAfter =>
        /\ FaultedRecords \subseteq 1..processedCount
        /\ matchedCount = Cardinality(Stored \cap (1..processedCount))
    /\ (AfterLoop /\ N >= 1) => processedCount = N
    /\ (pc = "returned" /\ N >= 1) =>
        batch[1].progressMessage = Message("final", Cardinality(Stored), N, 0, "")

\* C16 witness: execute returned over the largest batch after the handler
\* of a chunk ran, a record of that chunk being matched, and the final
\* message reports every record as processed.
C16_Witness ==
    /\ pc = "returned"
    /\ N = MaxRecords
    /\ FaultedRecords \cap Stored # {}
    /\ batch[1].progressMessage.processed = N
    /\ batch[1].progressMessage.matched >= 1

\* C17 (once per record): in one run the operation of a record is invoked
\* at most once, and exactly once when the loop is over; at most one store
\* update is issued for the record, exactly when the matcher answered with
\* a match; a stored update put the whole field set of that answer into the
\* record, and a record settled without a stored update has the fields it
\* had before the run.  This holds whatever operations, progress writes or
\* other store calls fail.
C17_OncePerRecord ==
    /\ \A r \in Records :
        /\ calls[r] <= 1
        /\ writes[r] <= 1
        /\ opPc[r] # "idle" <=> calls[r] = 1
        /\ writes[r] = 1 <=> Positive(r)
        /\ wresp[r] # "none" => writes[r] = 1
        /\ wresp[r] = "ok" => rows[r] = WholeRow(r, mresp[r].result)
        /\ wresp[r] # "ok" => rows[r] = InitialRow(r)
    /\ (AfterLoop /\ N >= 1) => \A r \in Records : calls[r] = 1
    /\ Len(classifications) = Cardinality(Range(classifications))

\* C17 witness: execute returned over the largest batch after a matcher
\* call failed, a record update failed, another one was stored and the
\* handler of a chunk ran.
C17_Witness ==
    /\ pc = "returned"
    /\ N = MaxRecords
    /\ MatcherFaults # {}
    /\ \E r \in Records : wresp[r] = "failed"
    /\ \E r \in Records : wresp[r] = "ok" /\ writes[r] = 1
    /\ chunkFaults # {}
    /\ \A r \in Records : calls[r] = 1

\* The watchdog has marked batch 1 stalled at some time.
WasStalled == batch[1].stalledAfter > 0

\* execute is suspended at one of its awaits.
Suspended == pc \in {"L24", "L31", "L35", "L96", "L107", "L125", "L136"}

\* C18 (a stall mark is a status override, not a termination): a scan of
\* the watchdog changes nothing of the running stage nor of the records;
\* in a batch marked stalled the stage is never blocked: at each await a
\* step of execute or of one of its operations is possible; and every
\* write of the stage that the store accepts is applied whatever the
\* watchdog wrote before: the record's whole field set, the progress value
\* and message, and the final status "completed" with the final message,
\* which replace the stalled status and message, the fields that the write
\* does not carry keeping their values.
C18_StallIsStatusOverride ==
    [][/\ ScanStep => UNCHANGED <<stageVars, opVars, exec, orchVars>>
       /\ (WasStalled /\ Suspended) =>
            IF pc = "L96" /\ InFlight # {}
            THEN \A r \in InFlight :
                    ENABLED (MatcherReturns(r) \/ MatcherFails(r) \/ UpdateSettles(r))
            ELSE ENABLED ExecuteOneChunk
       /\ \A r \in Records :
            (wresp[r] # "ok" /\ wresp'[r] = "ok") =>
                rows'[r] = WholeRow(r, mresp[r].result)
       /\ (pc = "L107" /\ Len(progressLog') > Len(progressLog)) =>
            /\ batch'[1].finexioMatchingProgress = progressLog'[Len(progressLog')]
            /\ batch'[1].progressMessage.kind = "progress"
            /\ batch'[1].status = batch[1].status
            /\ batch'[1].finexioMatchingStatus = batch[1].finexioMatchingStatus
       /\ (pc = "L125" /\ pc' = "returned") =>
            /\ batch'[1].finexioMatchingStatus = "completed"
            /\ batch'[1].progressMessage.kind = "final"
            /\ batch'[1].status = batch[1].status]_vars

\* C18 witness: the watchdog turned the stage status of the running stage
\* to "error"; the stage went on, its progress write replaced the stalled
\* message, and it is about to write its final status.
C18_Witness ==
    /\ WasStalled
    /\ batch[1].finexioMatchingStatus = "error"
    /\ batch[1].status = "failed"
    /\ error = ""
    /\ pc = "L125"
    /\ batch[1].progressMessage.kind = "progress"
    /\ \E r \in Records : wresp[r] = "ok"

C20_CompletedAtFullProgress ==
    batch[1].finexioMatchingStatus = "completed" =>
        batch[1].finexioMatchingProgress = 100

\* The message the stage persisted last reports counts.
CountsReported == batch[1].progressMessage.kind \in {"progress", "final"}

\* C21 (the matched count is the number of stored matches): throughout the
\* run matched <= processed <= total; the matched count is the number of
\* counted records whose match fields this run stored, so a record that the
\* matcher matched and whose update failed is not in it; and the counts of
\* the persisted progress or final message are such counts: its matched
\* count is the number of stored matches among the records it reports as
\* processed, which are all the records in the final message.
C21_MatchedCountIsStoredCount ==
    /\ matchedCount <= processedCount
    /\ processedCount <= totalCount
    /\ totalCount <= N
    /\ InLoopOrAfter =>
        /\ totalCount = N
        /\ matchedCount = Cardinality(Stored \cap (1..processedCount))
        /\ matchedCount <=
             Cardinality({r \in 1..processedCount : Positive(r) /\ wresp[r] # "failed"})
    /\ CountsReported =>
        LET msg == batch[1].progressMessage IN
        /\ msg.matched = Cardinality(Stored \cap (1..msg.processed))
        /\ msg.matched <= msg.processed
        /\ msg.processed <= N
        /\ msg.kind = "final" => msg.processed = N

\* C21 witness: execute returned over the largest batch; the matcher
\* matched a record whose update failed and another whose update was
\* stored, and the final message counts the stored ones only.
C21_Witness ==
    /\ pc = "returned"
    /\ N = MaxRecords
    /\ \E r \in Records : Positive(r) /\ wresp[r] = "failed"
    /\ Stored # {}
    /\ batch[1].progressMessage = Message("final", Cardinality(Stored), N, 0, "")
    /\ Cardinality(Stored) < K

\* execute has ended, by returning or by throwing.
Ended == pc \in {"returned", "thrown"}

\* C22 (terminal status at termination): when execute has returned the
\* stage status is "completed" or "skipped", when it has thrown the stage
\* status is "error"; it is never "processing" once execute has ended.
C22_EndsInTerminalStatus ==
    /\ pc = "returned" => batch[1].finexioMatchingStatus \in {"completed", "skipped"}
    /\ pc = "thrown" => batch[1].finexioMatchingStatus = "error"
    /\ Ended => batch[1].finexioMatchingStatus # "processing"

\* Termination, the other half of C22: when every awaited call settles, an
\* execute call that was entered ends.
C22_Terminates == (pc = "L24") ~> Ended

\* The stage status that each store call of the stage flow is to persist.
StatusAfter ==
    [L24 |-> "processing", L35 |-> "skipped", L125 |-> "completed", L136 |-> "error"]

\* An update of the stage flow is stored in this step.
StageWriteStep == pc \in DOMAIN StatusAfter /\ batch'[1] # batch[1]

\* C23 (the stage writes the descriptor's fields): each status update of the
\* stage that the store accepts shows in the batch field that the stage
\* descriptor names as its status field, and the final update is an update
\* of the descriptor's status field and completion field.
C23_WritesDescriptorFields ==
    [][StageWriteStep =>
          /\ batch'[1][FinexioDescriptor.statusField] = StatusAfter[pc]
          /\ pc = "L125" =>
               /\ FinexioDescriptor.statusField \in DOMAIN FinalUpdate
               /\ FinexioDescriptor.completedField \in DOMAIN FinalUpdate]_vars

====
